---- MODULE Spec2Model ----
(***************************************************************************)
(* The WebSocket hub of internal/controllers/websocket_controller.go:      *)
(* HandleConnections, readMessages (Reader), writeMessages (Writer), Run   *)
(* (Hub Loop) and notifyUserStatus (Presence Notifier).                    *)
(*                                                                         *)
(* The three hub channels (register, unregister, broadcast) are unbuffered:*)
(* a send and the hub's receive are one joint step.  Client.Send is a      *)
(* buffered channel; a send onto it blocks while it is full and panics     *)
(* once it is closed.                                                      *)
(***************************************************************************)
EXTENDS Integers, Sequences, FiniteSets, TLC

\* ---------------------------------------------------------------- bounds
\* Inbound frames decoded over the whole run, all Readers together: with
\* the three connections of Spec, with the two of SpecHist, and with the
\* three of SpecBusy (where one mailbox gets enough frames to stall the hub
\* while another connection is still being set up).
MaxReads == 1
MaxReadsPair == 2
MaxReadsBusy == 2
\* Capacity of Client.Send (256 in HandleConnections, line 78; scaled down
\* so that a full mailbox is reachable).
SendCap == 2

\* The connections ever opened: two of user 1 (the second may replace the
\* first in the registry) and one of user 2.
Conns == {1, 2, 3}
NoClient == 0
UserIDs == {1, 2}

\* ---------------------------------------------------------------- identity
\* The identity AuthMiddleware attached to the request of connection c.
UserID(c) == IF c % 2 = 1 THEN 1 ELSE 2
NameOf(u) == IF u = 1 THEN "alice" ELSE "bob"
Username(c) == NameOf(UserID(c))

\* ---------------------------------------------------------------- frames
\* Inbound wire frame number n, as the peer wrote it.  The hub never
\* inspects content, so the n-th frame read carries the payload n; in its
\* sender fields the peer names the addressee, which makes every frame to
\* another user a spoofing attempt.
WireFrames(n) ==
    {[sender_id |-> r, sender_name |-> NameOf(r), receiver_id |-> r, content |-> n] :
        r \in UserIDs}

NoMsg == [SenderID |-> 0, SenderName |-> "", ReceiverID |-> 0, Content |-> 0, Timestamp |-> 0]
NoWire == [sender_id |-> 0, sender_name |-> "", receiver_id |-> 0, content |-> 0]

\* ReadJSON decodes the wire frame into a Message (every field from the wire).
Decode(w) ==
    [SenderID |-> w.sender_id, SenderName |-> w.sender_name,
     ReceiverID |-> w.receiver_id, Content |-> w.content, Timestamp |-> 0]

\* A Reader that forwards the decoded sender fields unchanged.
StampTrustWire(c, m, t) == [m EXCEPT !.Timestamp = t]

\* readMessages lines 105-107: overwrite the sender fields and the timestamp.
Stamp(c, m, t) ==
    [m EXCEPT !.SenderID = UserID(c), !.SenderName = Username(c), !.Timestamp = t]

\* Outbound frames: what the hub built the frame from (type, user_id,
\* username, online, content) and text, the bytes put on the mailbox.

\* The text of a boolean and of a message content (payload number n).
BoolText(b) == IF b THEN "true" ELSE "false"
ContentText(n) == "msg" \o ToString(n)

\* A routed message is enqueued as []byte(message.Content) (line 153): the
\* content and nothing else.
RawFrame(content) ==
    [type |-> "raw", user_id |-> 0, username |-> "", online |-> FALSE, content |-> content,
     text |-> ContentText(content)]

\* notifyUserStatus, lines 161-169: the anonymous struct statusMessage.
StatusMessage(userID, username, online) ==
    [UserID |-> userID, Username |-> username, Online |-> online]

\* fmt's %s applied to a struct value: the fields in braces, separated by
\* spaces, each formatted with %s; a string prints as itself, an int64 and a
\* bool have no %s form and print as %!s(type=value).
SprintfS(v) ==
    "{" \o "%!s(int64=" \o ToString(v.UserID) \o ")" \o " " \o v.Username \o " "
        \o "%!s(bool=" \o BoolText(v.Online) \o ")" \o "}"

\* Line 173: fmt.Sprintf(`{"type":"status","data":%s}`, statusMessage).
StatusText(userID, username, online) ==
    "{\"type\":\"status\",\"data\":"
        \o SprintfS(StatusMessage(userID, username, online)) \o "}"

\* notifyUserStatus: the status frame built from (userID, username, online).
StatusFrame(userID, username, online) ==
    [type |-> "status", user_id |-> userID, username |-> username, online |-> online, content |-> 0,
     text |-> StatusText(userID, username, online)]
NoFrame ==
    [type |-> "none", user_id |-> 0, username |-> "", online |-> FALSE, content |-> 0,
     text |-> ""]

\* ---------------------------------------------------------------- state
VARIABLES
    handler,    \* HandleConnections of c: "idle" | "register" (blocked on wsc.register <- client) | "started"
                \*   | "unauthorized" | "upgrade failed" (returned without a Client)
    reader,     \* readMessages of c: "off" | "read" | "submit" | "unreg" | "done"
    writer,     \* writeMessages of c: "off" | "run" | "done"
    msg,        \* the stamped Message a Reader is handing to wsc.broadcast
    wire,       \* the inbound frame that Message was decoded from
    now,        \* time.Now(), as a logical clock: the number of frames read
    closeCalls, \* number of client.Conn.Close() calls issued on c
    clients,    \* wsc.clients: userID -> Client (NoClient: no entry)
    Send,       \* Client.Send: the buffered frames of each Client
    sendClosed, \* whether Client.Send has been closed
    hub,        \* Run: "select" | "send" (parked on a channel send) | "panic"
    hubLock,    \* whether Run holds wsc.mu
    hubTodo,    \* Clients the current handler still has to send to
    hubCur,     \* the Client whose Send the hub is parked on (NoClient: none)
    hubFrame,   \* the frame being sent
    evt,        \* history: the event Run received last
    sent,       \* history: the frames Run enqueued for that event, per Client
    owed,       \* history: frames of processed events not yet received by the addressee's Writer
    rec,        \* history switch: whether log and yield are kept in this run
    log,        \* history: every event Run received, in order
    yield,      \* history: the frames each Writer received from its Send, in order
    stores,     \* the rows of the stores table
    nextID,     \* the next value of the stores id sequence
    call        \* the storeService calls in progress: per caller, its arguments, its
                \*   position, the models.Store it works on, its result

vars == <<handler, reader, writer, msg, wire, now, closeCalls, clients, Send, sendClosed,
          hub, hubLock, hubTodo, hubCur, hubFrame, evt, sent, owed, rec, log, yield,
          stores, nextID, call>>

storeVars == <<stores, nextID, call>>

connVars == <<handler, reader, writer, msg, wire, now, closeCalls, yield>>
hubVars == <<clients, Send, sendClosed, hub, hubLock, hubTodo, hubCur, hubFrame,
             evt, sent, owed, rec, log>>

NoEvent ==
    [kind |-> "none", client |-> NoClient, msg |-> NoMsg,
     before |-> [u \in UserIDs |-> NoClient]]

\* ---------------------------------------------------------------- stores
\* The concurrent requests to the store service, the users that make them
\* (the userID AuthMiddleware put in the context) and the store ids they name.
Calls == {1, 2, 3}
Owners == {1, 2}
StoreIDs == {1, 2}

\* A nil *string, and the names a request can carry: one too short to pass
\* validation and two that give the same slug.
NoName == "<nil>"
Names == {"ab", "My Shop", "my_shop"}

\* validate.Struct on the request: name min=3,max=150 (required in
\* CreateStoreRequest, omitempty in UpdateStoreRequest).
ValidName(name) == Len(name) >= 3 /\ Len(name) <= 150

\* Store.GenerateSlug: lower case, spaces and underscores to dashes, every
\* other character outside a-z, 0-9 and - dropped.
GenerateSlug(name) ==
    CASE name = "My Shop" -> "my-shop"
      [] name = "my_shop" -> "my-shop"
      [] OTHER -> name

\* fmt.Sprintf("%s-%d", store.Slug, time.Now().Unix()).
SlugAt(slug, t) == slug \o "-" \o ToString(t)

NoStore == [ID |-> 0, OwnerID |-> 0, Name |-> "", Slug |-> ""]
NoCall ==
    [op |-> "none", ownerID |-> 0, id |-> 0, name |-> NoName, pc |-> "idle",
     store |-> NoStore, made |-> 0, result |-> ""]

\* storeRepo.FindByID, FindByOwnerID, FindBySlug: the rows the SELECT matches
\* (GetContext scans the first one; none: sql.ErrNoRows, returned as nil).
FindByID(id) == {s \in stores : s.ID = id}
FindByOwnerID(ownerID) == {s \in stores : s.OwnerID = ownerID}
FindBySlug(slug) == {s \in stores : s.Slug = slug}

\* An ownership test that lets everybody through.
IsOwnerAlways(store, ownerID) == TRUE

\* UpdateStore line 135, DeleteStore line 186: store.OwnerID != ownerID.
IsOwner(store, ownerID) == store.OwnerID = ownerID

\* The call of p ends with result and leaves the table alone.
Return(p, c, result) ==
    /\ call' = [call EXCEPT ![p] = [c EXCEPT !.pc = "done", !.result = result]]
    /\ UNCHANGED <<stores, nextID>>

InitHub ==
    /\ handler = [c \in Conns |-> "idle"]
    /\ reader = [c \in Conns |-> "off"]
    /\ writer = [c \in Conns |-> "off"]
    /\ msg = [c \in Conns |-> NoMsg]
    /\ wire = [c \in Conns |-> NoWire]
    /\ now = 0
    /\ closeCalls = [c \in Conns |-> 0]
    /\ clients = [u \in UserIDs |-> NoClient]
    /\ Send = [c \in Conns |-> <<>>]
    /\ sendClosed = [c \in Conns |-> FALSE]
    /\ hub = "select"
    /\ hubLock = FALSE
    /\ hubTodo = {}
    /\ hubCur = NoClient
    /\ hubFrame = NoFrame
    /\ evt = NoEvent
    /\ sent = [c \in Conns |-> <<>>]
    /\ owed = [c \in Conns |-> <<>>]
    /\ log = <<>>
    /\ yield = [c \in Conns |-> <<>>]
    /\ stores = {}
    /\ nextID = 1
    /\ call = [p \in Calls |-> NoCall]

\* The state after NewWebSocketController, histories off.
Init == InitHub /\ rec = FALSE

\* The same state, with the event log and the Writers' yields kept.
InitHist == InitHub /\ rec = TRUE

\* The transport of c is usable: upgraded and not yet closed by this side.
ConnOpen(c) == handler[c] # "idle" /\ closeCalls[c] = 0

\* ---------------------------------------------------------------- channel operations
\* A buffered channel send that puts the new frame at the head of the queue.
ChanSendFront(q, f) == <<f>> \o q

\* ch <- f on a buffered channel with room: the frame joins the tail.
ChanSend(q, f) == Append(q, f)

\* The registry lookup of the broadcast case that falls back to every
\* registered Client.
RouteTargetsAll(reg, receiverID) ==
    {reg[u] : u \in {v \in UserIDs : reg[v] # NoClient}}

\* A lookup that falls back to every registered Client when receiverID has
\* no entry.
RouteTargetsFallback(reg, receiverID) ==
    IF reg[receiverID] # NoClient THEN {reg[receiverID]}
    ELSE {reg[u] : u \in {v \in UserIDs : reg[v] # NoClient}}

\* A lookup that finds nobody.
RouteTargetsDrop(reg, receiverID) == {}

\* Run, broadcast case (lines 152-154): the Client registered under
\* receiverID, if any.
RouteTargets(reg, receiverID) ==
    IF reg[receiverID] # NoClient THEN {reg[receiverID]} ELSE {}

\* A presence fan-out that does not skip the subject's own entry.
NotifyTargetsAll(reg, userID) ==
    {reg[u] : u \in {v \in UserIDs : reg[v] # NoClient}}

\* notifyUserStatus (lines 171-175): every registry entry whose key differs
\* from userID.
NotifyTargets(reg, userID) ==
    {reg[u] : u \in {v \in UserIDs : v # userID /\ reg[v] # NoClient}}

\* A register case that keeps an entry already present.
MapStoreIfAbsent(reg, c) ==
    IF reg[UserID(c)] = NoClient THEN [reg EXCEPT ![UserID(c)] = c] ELSE reg

\* Line 132: wsc.clients[client.UserID] = client.
MapStore(reg, c) == [reg EXCEPT ![UserID(c)] = c]

\* An unregister case that leaves the entry in the map.
MapDeleteNothing(reg, userID) == reg

\* An unregister case that never finds the key.
MapHasKeyNever(reg, userID) == FALSE

\* Line 140: _, ok := wsc.clients[client.UserID].
MapHasKey(reg, userID) == reg[userID] # NoClient

\* An unregister case that empties the map.
MapDeleteAll(reg, userID) == [u \in UserIDs |-> NoClient]

\* Line 141: delete(wsc.clients, client.UserID).
MapDelete(reg, userID) == [reg EXCEPT ![userID] = NoClient]

\* Sends of one frame to the Clients of targets, as Run and
\* notifyUserStatus issue them one after the other, in the order the map
\* iteration yields (first: the Client the hub was parked on, served
\* first).  Sends into buffers with room complete; the first send into a
\* full buffer parks the hub on that Client, with the Clients of done
\* already served.  A send on a closed channel panics.
Deliver(targets, frame, first, prior, locked) ==
    LET ready == {d \in targets : Len(Send[d]) < SendCap}
    IN  IF \E d \in targets : sendClosed[d]
        THEN /\ hub' = "panic"
             /\ sent' = prior
             /\ UNCHANGED <<Send, hubTodo, hubCur, hubLock>>
        ELSE \E done \in SUBSET ready : \E parked \in (targets \ ready) \cup {NoClient} :
             /\ first # NoClient => first \in done
             /\ (parked = NoClient) = (ready = targets)
             /\ parked = NoClient => done = targets
             /\ Send' = [d \in Conns |-> IF d \in done THEN ChanSend(Send[d], frame) ELSE Send[d]]
             /\ sent' = [d \in Conns |-> IF d \in done THEN Append(prior[d], frame) ELSE prior[d]]
             /\ hubTodo' = targets \ done
             /\ hubCur' = parked
             /\ hub' = IF parked = NoClient THEN "select" ELSE "send"
             /\ hubLock' = (locked /\ parked # NoClient)

\* The hub starts handling an event whose frame goes to the Clients of
\* targets.
HubBegin(e, targets, frame, locked) ==
    /\ evt' = e
    /\ log' = IF rec THEN Append(log, [kind |-> e.kind, client |-> e.client, msg |-> e.msg]) ELSE log
    /\ owed' = [c \in Conns |-> IF c \in targets THEN Append(owed[c], frame) ELSE owed[c]]
    /\ hubFrame' = frame
    /\ Deliver(targets, frame, NoClient, [c \in Conns |-> <<>>], locked)

\* ---------------------------------------------------------------- HandleConnections
\* Lines 55-79: identity present, upgrade succeeded, Client built with an
\* empty Send; the handler now blocks on wsc.register <- client.
\* (Connections of one user are interchangeable until they register, so
\* they are numbered in the order they do.)
HandleConnections(c) ==
    /\ handler[c] = "idle"
    /\ \A b \in Conns : (b < c /\ UserID(b) = UserID(c)) => handler[b] = "started"
    /\ handler' = [handler EXCEPT ![c] = "register"]
    /\ UNCHANGED <<reader, writer, msg, wire, now, closeCalls, yield>>
    /\ UNCHANGED storeVars
    /\ UNCHANGED hubVars

\* A handler that puts the Client into the registry before it checks the
\* upgrade, and returns on the failure.
HandleConnectionsFailLeaks(c) ==
    /\ handler[c] = "idle"
    /\ \E why \in {"unauthorized", "upgrade failed"} :
        handler' = [handler EXCEPT ![c] = why]
    /\ clients' = [clients EXCEPT ![UserID(c)] = c]
    /\ UNCHANGED <<reader, writer, msg, wire, now, closeCalls, yield>>
    /\ UNCHANGED storeVars
    /\ UNCHANGED <<Send, sendClosed, hub, hubLock, hubTodo, hubCur, hubFrame,
                   evt, sent, owed, rec, log>>

\* Lines 55-72: the identity is missing from the request context (userID,
\* line 56, or username, line 62: 401 Unauthorized) or upgrader.Upgrade
\* fails (line 69: logged); the handler returns.
HandleConnectionsFail(c) ==
    /\ handler[c] = "idle"
    /\ \E why \in {"unauthorized", "upgrade failed"} :
        handler' = [handler EXCEPT ![c] = why]
    /\ UNCHANGED <<reader, writer, msg, wire, now, closeCalls, yield>>
    /\ UNCHANGED storeVars
    /\ UNCHANGED hubVars

\* ---------------------------------------------------------------- Run
\* Run, register case (lines 130-136), joint with the handler's send on
\* wsc.register (line 81), after which the handler starts the Reader and
\* the Writer (lines 84-86).
RunRegister(c) ==
    /\ hub = "select"
    /\ handler[c] = "register"
    /\ handler' = [handler EXCEPT ![c] = "started"]
    /\ reader' = [reader EXCEPT ![c] = "read"]
    /\ writer' = [writer EXCEPT ![c] = "run"]
    /\ clients' = MapStore(clients, c)
    /\ HubBegin([kind |-> "register", client |-> c, msg |-> NoMsg, before |-> clients],
                NotifyTargets(clients', UserID(c)),
                StatusFrame(UserID(c), Username(c), TRUE), FALSE)
    /\ UNCHANGED <<msg, wire, now, closeCalls, sendClosed, rec, yield>>
    /\ UNCHANGED storeVars

\* Run, unregister case (lines 138-147), joint with the Reader's deferred
\* cleanup (lines 90-93): the send on wsc.unregister, then
\* client.Conn.Close().  Closing a closed channel panics.
RunUnregister(c) ==
    /\ hub = "select"
    /\ reader[c] = "unreg"
    /\ reader' = [reader EXCEPT ![c] = "done"]
    /\ closeCalls' = [closeCalls EXCEPT ![c] = @ + 1]
    /\ LET found == MapHasKey(clients, UserID(c))
           e == [kind |-> "unregister", client |-> c, msg |-> NoMsg, before |-> clients]
       IN  /\ clients' = IF found THEN MapDelete(clients, UserID(c)) ELSE clients
           /\ sendClosed' = IF found THEN [sendClosed EXCEPT ![c] = TRUE] ELSE sendClosed
           /\ IF found /\ sendClosed[c]
              THEN /\ hub' = "panic"
                   /\ evt' = e
                   /\ UNCHANGED <<Send, sent, owed, hubTodo, hubFrame, hubCur, hubLock, log>>
              ELSE HubBegin(e, NotifyTargets(clients', UserID(c)),
                            StatusFrame(UserID(c), Username(c), FALSE), FALSE)
    /\ UNCHANGED <<handler, writer, msg, wire, now, rec, yield>>
    /\ UNCHANGED storeVars

\* A hub that takes a route event while a presence fan-out is still parked
\* (events handled concurrently instead of one at a time).
RunBroadcastAnytime(c) ==
    /\ reader[c] = "submit"
    /\ reader' = [reader EXCEPT ![c] = "read"]
    /\ msg' = [msg EXCEPT ![c] = NoMsg]
    /\ wire' = [wire EXCEPT ![c] = NoWire]
    /\ hub # "panic"
    /\ evt' = [kind |-> "route", client |-> c, msg |-> msg[c], before |-> clients]
    /\ UNCHANGED <<Send, sent, owed, hub, hubLock, hubTodo, hubCur, hubFrame, log>>
    /\ UNCHANGED <<handler, writer, now, closeCalls, clients, sendClosed, rec, yield>>
    /\ UNCHANGED storeVars

\* Run, broadcast case (lines 149-155), joint with the Reader's send on
\* wsc.broadcast (line 109).  wsc.mu stays held across the send on
\* receiver.Send.
RunBroadcast(c) ==
    /\ hub = "select"
    /\ reader[c] = "submit"
    /\ reader' = [reader EXCEPT ![c] = "read"]
    /\ msg' = [msg EXCEPT ![c] = NoMsg]
    /\ wire' = [wire EXCEPT ![c] = NoWire]
    /\ HubBegin([kind |-> "route", client |-> c, msg |-> msg[c], before |-> clients],
                RouteTargets(clients, msg[c].ReceiverID),
                RawFrame(msg[c].Content), TRUE)
    /\ UNCHANGED <<handler, writer, now, closeCalls, clients, sendClosed, rec, yield>>
    /\ UNCHANGED storeVars

\* The Writer of the Client the hub is parked on has made room: the send
\* (line 153 or 173) completes and the handler goes on.
HubResume(d) ==
    /\ hub = "send"
    /\ hubCur = d
    /\ Len(Send[d]) < SendCap
    /\ Deliver(hubTodo, hubFrame, d, sent, hubLock)
    /\ UNCHANGED <<clients, sendClosed, hubFrame, evt, owed, rec, log>>
    /\ UNCHANGED connVars
    /\ UNCHANGED storeVars

\* ---------------------------------------------------------------- readMessages
\* Lines 96-107: ReadJSON decodes an inbound frame, the Reader stamps it and
\* blocks on wsc.broadcast <- msg.  (budget: the number of frames the peers
\* send in this run.)
ReadFrame(c, w, budget) ==
    /\ reader[c] = "read"
    /\ ConnOpen(c)
    /\ now < budget
    /\ now' = now + 1
    /\ msg' = [msg EXCEPT ![c] = Stamp(c, Decode(w), now')]
    /\ wire' = [wire EXCEPT ![c] = w]
    /\ reader' = [reader EXCEPT ![c] = "submit"]
    /\ UNCHANGED <<handler, writer, closeCalls, yield>>
    /\ UNCHANGED storeVars
    /\ UNCHANGED hubVars

\* A Reader that removes its Client from the registry itself on a failed
\* read, before it submits the unregister event.
ReadErrorDeletes(c) ==
    /\ reader[c] = "read"
    /\ reader' = [reader EXCEPT ![c] = "unreg"]
    /\ clients' = [clients EXCEPT ![UserID(c)] = NoClient]
    /\ UNCHANGED <<handler, writer, msg, wire, now, closeCalls, yield>>
    /\ UNCHANGED storeVars
    /\ UNCHANGED <<Send, sendClosed, hub, hubLock, hubTodo, hubCur, hubFrame,
                   evt, sent, owed, rec, log>>

\* Lines 97-103: ReadJSON fails (a malformed frame, the peer gone, the
\* transport closed); the loop breaks and the deferred cleanup blocks on
\* wsc.unregister <- client.
ReadError(c) ==
    /\ reader[c] = "read"
    /\ reader' = [reader EXCEPT ![c] = "unreg"]
    /\ UNCHANGED <<handler, writer, msg, wire, now, closeCalls, yield>>
    /\ UNCHANGED storeVars
    /\ UNCHANGED hubVars

\* ---------------------------------------------------------------- writeMessages
\* A Writer that takes the newest frame of its mailbox instead of the oldest.
WriterWriteLast(c) ==
    /\ writer[c] = "run"
    /\ Send[c] # <<>>
    /\ ConnOpen(c)
    /\ Send' = [Send EXCEPT ![c] = SubSeq(@, 1, Len(@) - 1)]
    /\ owed' = [owed EXCEPT ![c] = SubSeq(@, 1, Len(@) - 1)]
    /\ yield' = IF rec THEN [yield EXCEPT ![c] = Append(@, Send[c][Len(Send[c])])] ELSE yield
    /\ UNCHANGED <<handler, reader, writer, msg, wire, now, closeCalls>>
    /\ UNCHANGED storeVars
    /\ UNCHANGED <<clients, sendClosed, hub, hubLock, hubTodo, hubCur, hubFrame, evt, sent, rec, log>>

\* A Writer that writes every frame it receives twice.
WriterWriteTwice(c) ==
    /\ writer[c] = "run"
    /\ Send[c] # <<>>
    /\ ConnOpen(c)
    /\ Send' = [Send EXCEPT ![c] = Tail(Send[c])]
    /\ owed' = [owed EXCEPT ![c] = Tail(owed[c])]
    /\ yield' = IF rec THEN [yield EXCEPT ![c] = @ \o <<Head(Send[c]), Head(Send[c])>>] ELSE yield
    /\ UNCHANGED <<handler, reader, writer, msg, wire, now, closeCalls>>
    /\ UNCHANGED storeVars
    /\ UNCHANGED <<clients, sendClosed, hub, hubLock, hubTodo, hubCur, hubFrame, evt, sent, rec, log>>

\* Lines 118-119: receive the next frame from client.Send and write it.
WriterWrite(c) ==
    /\ writer[c] = "run"
    /\ Send[c] # <<>>
    /\ ConnOpen(c)
    /\ Send' = [Send EXCEPT ![c] = Tail(Send[c])]
    /\ owed' = [owed EXCEPT ![c] = Tail(owed[c])]
    /\ yield' = IF rec THEN [yield EXCEPT ![c] = Append(@, Head(Send[c]))] ELSE yield
    /\ UNCHANGED <<handler, reader, writer, msg, wire, now, closeCalls>>
    /\ UNCHANGED storeVars
    /\ UNCHANGED <<clients, sendClosed, hub, hubLock, hubTodo, hubCur, hubFrame, evt, sent, rec, log>>

\* A Writer whose failed write also submits an unregister event for its
\* Client.
WriterFailUnregisters(c) ==
    /\ writer[c] = "run"
    /\ Send[c] # <<>>
    /\ Send' = [Send EXCEPT ![c] = Tail(Send[c])]
    /\ owed' = [owed EXCEPT ![c] = Tail(owed[c])]
    /\ yield' = IF rec THEN [yield EXCEPT ![c] = Append(@, Head(Send[c]))] ELSE yield
    /\ writer' = [writer EXCEPT ![c] = "done"]
    /\ closeCalls' = [closeCalls EXCEPT ![c] = @ + 1]
    /\ reader' = [reader EXCEPT ![c] = "unreg"]
    /\ UNCHANGED <<handler, msg, wire, now>>
    /\ UNCHANGED storeVars
    /\ UNCHANGED <<clients, sendClosed, hub, hubLock, hubTodo, hubCur, hubFrame, evt, sent, rec, log>>

\* Lines 118-123: the write of the received frame fails (the peer gone, the
\* transport closed); the Writer returns and its deferred
\* client.Conn.Close() runs.
WriterFail(c) ==
    /\ writer[c] = "run"
    /\ Send[c] # <<>>
    /\ Send' = [Send EXCEPT ![c] = Tail(Send[c])]
    /\ owed' = [owed EXCEPT ![c] = Tail(owed[c])]
    /\ yield' = IF rec THEN [yield EXCEPT ![c] = Append(@, Head(Send[c]))] ELSE yield
    /\ writer' = [writer EXCEPT ![c] = "done"]
    /\ closeCalls' = [closeCalls EXCEPT ![c] = @ + 1]
    /\ UNCHANGED <<handler, reader, msg, wire, now>>
    /\ UNCHANGED storeVars
    /\ UNCHANGED <<clients, sendClosed, hub, hubLock, hubTodo, hubCur, hubFrame, evt, sent, rec, log>>

\* Lines 114-118: client.Send is closed and drained; the range loop ends and
\* the deferred client.Conn.Close() runs.
WriterExit(c) ==
    /\ writer[c] = "run"
    /\ Send[c] = <<>>
    /\ sendClosed[c]
    /\ writer' = [writer EXCEPT ![c] = "done"]
    /\ closeCalls' = [closeCalls EXCEPT ![c] = @ + 1]
    /\ UNCHANGED <<handler, reader, msg, wire, now, yield>>
    /\ UNCHANGED storeVars
    /\ UNCHANGED hubVars

\* The steps of the connections in S and of the hub serving them, with the
\* peers sending budget frames in all.
NextOver(S, budget) ==
    \/ \E c \in S : HandleConnections(c)
    \/ \E c \in S : HandleConnectionsFail(c)
    \/ \E c \in S : RunRegister(c)
    \/ \E c \in S : RunUnregister(c)
    \/ \E c \in S : RunBroadcast(c)
    \/ \E d \in S : HubResume(d)
    \/ \E c \in S : \E w \in WireFrames(now + 1) : ReadFrame(c, w, budget)
    \/ \E c \in S : ReadError(c)
    \/ \E c \in S : WriterWrite(c)
    \/ \E c \in S : WriterFail(c)
    \/ \E c \in S : WriterExit(c)

Next == NextOver(Conns, MaxReads)

Spec == Init /\ [][Next]_vars

\* Two users with one connection each, run with the histories kept.
Pair == {1, 2}
NextPair == NextOver(Pair, MaxReadsPair)
SpecHist == InitHist /\ [][NextPair]_vars

\* The three connections again, with a larger budget of inbound frames.
NextBusy == NextOver(Conns, MaxReadsBusy)
SpecBusy == Init /\ [][NextBusy]_vars

\* The pair again, with every Writer scheduled fairly: a Writer whose
\* receive from client.Send and whose write can go ahead does not wait
\* forever.
SpecLive == SpecHist /\ \A c \in Pair : WF_vars(WriterWrite(c))

\* ---------------------------------------------------------------- storeService
\* Every statement the repository sends to the database is one step; the
\* service keeps no lock and opens no transaction across them.  (Callers
\* are interchangeable until they call, so they are numbered in the order
\* they do.)
MayCall(p) ==
    /\ call[p].pc = "idle"
    /\ \A q \in Calls : q < p => call[q].pc # "idle"

\* CreateStore lines 36-62: validate the request, FindByOwnerID, build the
\* models.Store and generate its slug.
CreateStoreBegin(p, ownerID, name) ==
    /\ MayCall(p)
    /\ LET c == [NoCall EXCEPT !.op = "create", !.ownerID = ownerID, !.name = name]
       IN  IF ~ValidName(name)
           THEN Return(p, c, "validation error")
           ELSE IF FindByOwnerID(ownerID) # {}
           THEN Return(p, c, "user already has a store")
           ELSE /\ call' = [call EXCEPT ![p] =
                        [c EXCEPT !.pc = "create_slug",
                                  !.store = [ID |-> 0, OwnerID |-> ownerID, Name |-> name,
                                             Slug |-> GenerateSlug(name)]]]
                /\ UNCHANGED <<stores, nextID>>
    /\ UNCHANGED <<connVars, hubVars>>

\* CreateStore lines 65-72: FindBySlug; a slug already taken gets the time
\* appended.
CreateStoreSlug(p) ==
    /\ call[p].pc = "create_slug"
    /\ call' = [call EXCEPT ![p].pc = "create_insert",
                            ![p].store.Slug =
                                IF FindBySlug(@) # {} THEN SlugAt(@, now) ELSE @]
    /\ UNCHANGED <<stores, nextID>>
    /\ UNCHANGED <<connVars, hubVars>>

\* CreateStore lines 74-79 and storeRepo.Create: INSERT ... RETURNING id.
\* The database takes the row and numbers it, or refuses the statement
\* (the error is wrapped as "error creating store").
CreateStoreInsert(p) ==
    /\ call[p].pc = "create_insert"
    /\ \/ /\ stores' = stores \cup {[call[p].store EXCEPT !.ID = nextID]}
          /\ nextID' = nextID + 1
          /\ call' = [call EXCEPT ![p].pc = "done", ![p].result = "ok",
                                  ![p].store.ID = nextID, ![p].made = nextID]
       \/ Return(p, call[p], "error creating store")
    /\ UNCHANGED <<connVars, hubVars>>

\* UpdateStore lines 122-142: validate the request, FindByID, the ownership
\* test, and the new name and slug when the request carries a name.
UpdateStoreBegin(p, ownerID, id, name) ==
    /\ MayCall(p)
    /\ LET c == [NoCall EXCEPT !.op = "update", !.ownerID = ownerID, !.id = id, !.name = name]
           found == FindByID(id)
       IN  IF name # NoName /\ ~ValidName(name)
           THEN Return(p, c, "validation error")
           ELSE IF found = {}
           THEN Return(p, c, "store not found")
           ELSE \E store \in found :
                IF ~IsOwner(store, ownerID)
                THEN Return(p, c, "unauthorized: not store owner")
                ELSE /\ call' = [call EXCEPT ![p] =
                            IF name = NoName
                            THEN [c EXCEPT !.pc = "update_write", !.store = store]
                            ELSE [c EXCEPT !.pc = "update_slug",
                                           !.store = [store EXCEPT !.Name = name,
                                                                   !.Slug = GenerateSlug(name)]]]
                     /\ UNCHANGED <<stores, nextID>>
    /\ UNCHANGED <<connVars, hubVars>>

\* UpdateStore lines 145-151: FindBySlug; a slug another store holds gets the
\* time appended.
UpdateStoreSlug(p) ==
    /\ call[p].pc = "update_slug"
    /\ call' = [call EXCEPT ![p].pc = "update_write",
                            ![p].store.Slug =
                                IF \E e \in FindBySlug(@) : e.ID # call[p].store.ID
                                THEN SlugAt(@, now) ELSE @]
    /\ UNCHANGED <<stores, nextID>>
    /\ UNCHANGED <<connVars, hubVars>>

\* UpdateStore lines 163-173 and storeRepo.Update: UPDATE stores SET name,
\* slug, ... WHERE id; no row affected: sql.ErrNoRows, "store not found".
UpdateStoreWrite(p) ==
    /\ call[p].pc = "update_write"
    /\ LET rows == FindByID(call[p].store.ID)
       IN  IF rows = {}
           THEN Return(p, call[p], "store not found")
           ELSE /\ stores' = (stores \ rows)
                        \cup {[r EXCEPT !.Name = call[p].store.Name,
                                        !.Slug = call[p].store.Slug] : r \in rows}
                /\ call' = [call EXCEPT ![p].pc = "done", ![p].result = "ok"]
                /\ UNCHANGED nextID
    /\ UNCHANGED <<connVars, hubVars>>

\* DeleteStore lines 177-188: FindByID and the ownership test.
DeleteStoreBegin(p, ownerID, id) ==
    /\ MayCall(p)
    /\ LET c == [NoCall EXCEPT !.op = "delete", !.ownerID = ownerID, !.id = id]
           found == FindByID(id)
       IN  IF found = {}
           THEN Return(p, c, "store not found")
           ELSE \E store \in found :
                IF ~IsOwner(store, ownerID)
                THEN Return(p, c, "unauthorized: not store owner")
                ELSE /\ call' = [call EXCEPT ![p] = [c EXCEPT !.pc = "delete_write", !.store = store]]
                     /\ UNCHANGED <<stores, nextID>>
    /\ UNCHANGED <<connVars, hubVars>>

\* DeleteStore lines 190-197 and storeRepo.Delete: DELETE FROM stores WHERE
\* id; no row affected: sql.ErrNoRows, "store not found".
DeleteStoreWrite(p) ==
    /\ call[p].pc = "delete_write"
    /\ LET rows == FindByID(call[p].id)
       IN  IF rows = {}
           THEN Return(p, call[p], "store not found")
           ELSE /\ stores' = stores \ rows
                /\ call' = [call EXCEPT ![p].pc = "done", ![p].result = "ok"]
                /\ UNCHANGED nextID
    /\ UNCHANGED <<connVars, hubVars>>

NextStore ==
    \/ \E p \in Calls : \E o \in Owners : \E n \in Names : CreateStoreBegin(p, o, n)
    \/ \E p \in Calls : CreateStoreSlug(p)
    \/ \E p \in Calls : CreateStoreInsert(p)
    \/ \E p \in Calls : \E o \in Owners : \E i \in StoreIDs : \E n \in {NoName, "ab", "my_shop"} :
            UpdateStoreBegin(p, o, i, n)
    \/ \E p \in Calls : UpdateStoreSlug(p)
    \/ \E p \in Calls : UpdateStoreWrite(p)
    \/ \E p \in Calls : \E o \in Owners : \E i \in StoreIDs : DeleteStoreBegin(p, o, i)
    \/ \E p \in Calls : DeleteStoreWrite(p)

\* The store service on an empty table, with no connection to the hub.
SpecStore == Init /\ [][NextStore]_vars

\* ================================================================ claims
\* The send the hub is parked in or still has to issue to d.
Pending(d) == IF hub = "send" /\ d \in hubTodo THEN <<hubFrame>> ELSE <<>>

\* The Clients the registry reg points at.
Registered(reg) == {reg[u] : u \in {v \in UserIDs : reg[v] # NoClient}}

\* C1 - FIFO per receiver: the frames of the events the hub processed for a
\* Client and that its Writer has not received yet are exactly the content of
\* its mailbox (followed by the send the hub is parked in), in the order the
\* hub processed the events; the Writer receives them oldest first.
C1_FifoPerReceiver ==
    \A d \in Conns : owed[d] = Send[d] \o Pending(d)

\* Two routed messages wait in one mailbox, the older one first.
C1_Witness ==
    \E d \in Conns :
        /\ Len(Send[d]) = 2
        /\ Send[d][1].type = "raw" /\ Send[d][2].type = "raw"
        /\ Send[d][1].content < Send[d][2].content

\* C2 - route hit: a route event whose receiverID is registered enqueues
\* exactly one frame, the message content, onto the mailbox of the Client
\* registered under receiverID (none while the hub is still parked on that
\* mailbox) and nothing onto any other mailbox; the registry is unchanged;
\* no routed payload sits in two places of the mailboxes.
C2_RouteHitOneFrame ==
    /\ (evt.kind = "route" /\ evt.before[evt.msg.ReceiverID] # NoClient) =>
        LET r == evt.before[evt.msg.ReceiverID]
        IN  /\ clients = evt.before
            /\ hub # "panic"
            /\ \A d \in Conns \ {r} : sent[d] = <<>>
            /\ sent[r] = IF hub = "select" THEN <<RawFrame(evt.msg.Content)>> ELSE <<>>
            /\ hub = "send" => hubCur = r /\ hubTodo = {r}
    /\ \A d, e \in Conns : \A i \in DOMAIN Send[d] : \A j \in DOMAIN Send[e] :
        (Send[d][i].type = "raw" /\ Send[d][i] = Send[e][j]) => (d = e /\ i = j)

\* A message from a registered sender has been delivered to another,
\* registered Client.
C2_Witness ==
    /\ evt.kind = "route" /\ hub = "select"
    /\ evt.before[evt.msg.ReceiverID] \notin {NoClient, evt.client}
    /\ evt.before[UserID(evt.client)] = evt.client
    /\ sent[evt.before[evt.msg.ReceiverID]] # <<>>

\* The hub receives a route event from the Reader of c whose receiverID has
\* no registry entry.
RouteMissStep(c) ==
    /\ hub = "select"
    /\ reader[c] = "submit"
    /\ reader'[c] # "submit"
    /\ clients[msg[c].ReceiverID] = NoClient

\* C3 - route miss: the step that processes a route event to an
\* unregistered receiverID leaves every mailbox and the registry as they
\* were, leaves the hub ready for its next event, and returns the sender's
\* Reader to reading, with its transport and every other task untouched.
C3_RouteMissSilent ==
    [][\A c \in Conns : RouteMissStep(c) =>
          /\ reader' = [reader EXCEPT ![c] = "read"]
          /\ Send' = Send /\ sendClosed' = sendClosed
          /\ clients' = clients
          /\ hub' = "select" /\ hubTodo' = {}
          /\ closeCalls' = closeCalls /\ writer' = writer /\ handler' = handler]_vars

\* A route miss has been processed while its sender was registered.
C3_Witness ==
    /\ evt.kind = "route" /\ hub = "select"
    /\ evt.before[evt.msg.ReceiverID] = NoClient
    /\ evt.before[UserID(evt.client)] = evt.client
    /\ reader[evt.client] = "read"

\* C4 - unregister(c) leaves a newer Client of the same userID in the
\* registry: when the entry of c.userID points at another Client, processing
\* the unregister event of c does not change it.
C4_UnregisterKeepsNewer ==
    (evt.kind = "unregister"
        /\ evt.before[UserID(evt.client)] \notin {NoClient, evt.client})
    => clients[UserID(evt.client)] = evt.before[UserID(evt.client)]

\* C5 - the hub is never stalled for good: it is never parked in a send onto
\* a full mailbox whose Writer has terminated (nothing can make room again,
\* so it would never receive its next event).
C5_HubNeverStalled ==
    ~(hub = "send" /\ hubCur # NoClient /\ writer[hubCur] = "done"
        /\ Len(Send[hubCur]) = SendCap)

\* C6 - teardown convergence: once the unregister event of a Client has been
\* processed (the only step that closes its mailbox or removes its entry),
\* no registry entry points at it, its mailbox is closed and its transport
\* has been closed.
C6_TeardownConverges ==
    \A c \in Conns : reader[c] = "done" =>
        /\ \A u \in UserIDs : clients[u] # c
        /\ sendClosed[c]
        /\ closeCalls[c] >= 1

\* Inbound frames that differ only in their sender fields are stamped into
\* the same Message.
StampIgnoresWireSender ==
    \A c \in Conns : \A w \in WireFrames(1) : \A u \in UserIDs :
        Stamp(c, Decode([w EXCEPT !.sender_id = u, !.sender_name = NameOf(u)]), 1)
            = Stamp(c, Decode(w), 1)

\* C7 - sender fields come from the Client, never from the wire: the
\* Message a Reader hands to the hub, and the one the hub received, carry
\* the identity of the Reader's Client and the addressing and content of the
\* inbound frame; frames that differ only in their sender fields give the
\* same Message.
C7_SenderNeverFromWire ==
    /\ \A c \in Conns : reader[c] = "submit" =>
        /\ msg[c].SenderID = UserID(c) /\ msg[c].SenderName = Username(c)
        /\ msg[c].ReceiverID = wire[c].receiver_id /\ msg[c].Content = wire[c].content
    /\ evt.kind = "route" =>
        evt.msg.SenderID = UserID(evt.client) /\ evt.msg.SenderName = Username(evt.client)
    /\ StampIgnoresWireSender

\* A Reader is handing over a message whose inbound frame named another
\* user as the sender.
C7_Witness ==
    \E c \in Conns : reader[c] = "submit" /\ wire[c].sender_id # UserID(c)

\* C8 - presence on registration: once register(B) has been processed, every
\* other Client in the registry has been sent exactly one presence-online
\* frame for B, and B and every Client outside the registry none; while the
\* fan-out is parked nobody has been sent more than that one frame.
C8_PresenceOnRegister ==
    evt.kind = "register" =>
        LET B == evt.client
            online == StatusFrame(UserID(B), Username(B), TRUE)
            others == Registered(clients) \ {B}
        IN  /\ clients[UserID(B)] = B
            /\ hub # "panic"
            /\ \A d \in Conns \ others : sent[d] = <<>>
            /\ \A d \in others :
                sent[d] = IF hub = "select" \/ d \notin hubTodo THEN <<online>> ELSE <<>>

\* register(B) has been processed with another Client registered.
C8_Witness ==
    /\ evt.kind = "register" /\ hub = "select"
    /\ Registered(clients) \ {evt.client} # {}

\* C9 - presence on unregistration: once unregister(B) has been processed
\* for a registered B, every Client left in the registry has been sent
\* exactly one presence-offline frame for B and nobody else any; an
\* unregister that removed nothing sends no presence frame at all.
C9_PresenceOnUnregister ==
    (evt.kind = "unregister" /\ hub = "select") =>
        LET B == evt.client
            offline == StatusFrame(UserID(B), Username(B), FALSE)
        IN  IF evt.before[UserID(B)] = B
            THEN \A d \in Conns :
                    sent[d] = IF d \in Registered(clients) THEN <<offline>> ELSE <<>>
            ELSE clients = evt.before => \A d \in Conns : sent[d] = <<>>

\* The run so far is: register A and B (in either order), then nothing but
\* messages from A addressed to B.
Scenario(A, B) ==
    /\ Len(log) >= 2
    /\ {log[1].kind, log[2].kind} = {"register"}
    /\ {log[1].client, log[2].client} = {A, B}
    /\ \A i \in 3..Len(log) :
        /\ log[i].kind = "route"
        /\ log[i].client = A
        /\ log[i].msg.ReceiverID = UserID(B)

\* C10 - after registering A and B, N messages routed from A to B: what B's
\* mailbox has yielded, still holds or is about to get is exactly the N
\* message contents, in the order sent, after the one presence frame B got
\* if it registered first.
C10_RoutedInOrder ==
    \A A, B \in Pair : (A # B /\ Scenario(A, B)) =>
        LET before == IF log[1].client = B
                      THEN <<StatusFrame(UserID(A), Username(A), TRUE)>> ELSE <<>>
            routed == [i \in 1..(Len(log) - 2) |-> RawFrame(log[i + 2].msg.Content)]
        IN  yield[B] \o Send[B] \o Pending(B) = before \o routed

\* Two messages from A have reached B's mailbox and the hub is ready again.
C10_Witness ==
    \E A, B \in Pair :
        /\ A # B /\ Scenario(A, B)
        /\ Len(log) = 4 /\ hub = "select"
        /\ Len(yield[B] \o Send[B]) >= 2

\* The hub is parked in a send that can never complete: the mailbox is full
\* and the Writer that would drain it has terminated.
HubStalled ==
    /\ hub = "send" /\ hubCur # NoClient
    /\ writer[hubCur] = "done" /\ Len(Send[hubCur]) = SendCap

Quiescent ==
    /\ hub = "select"
    /\ \A c \in Conns : handler[c] # "register" /\ reader[c] # "unreg"

\* The connection of c is currently registered: registered and not yet
\* unregistered.
Live(c) == handler[c] = "started" /\ reader[c] # "done"

C13_Establish ==
    /\ \A c \in Conns : handler[c] = "register" =>
        /\ Send[c] = <<>> /\ ~sendClosed[c]
        /\ reader[c] = "off" /\ writer[c] = "off"
    /\ \A c \in Conns : handler[c] = "started" => reader[c] # "off" /\ writer[c] # "off"
    /\ evt.kind = "register" => clients[UserID(evt.client)] = evt.client
    /\ \A c \in Conns : ~(handler[c] = "register" /\ HubStalled)

\* The outcomes of a request that was turned away.
Failed == {"unauthorized", "upgrade failed"}

\* C14 - failed establishment has no effect on the hub: the step in which a
\* request fails (identity missing, or upgrade failed) changes neither the
\* registry nor any mailbox nor the hub, starts no Reader and no Writer and
\* submits no event; and the request stays failed: it never gets a Client,
\* a task or a registry entry afterwards.
C14_FailedEstablishNoEffect ==
    [][\A c \in Conns :
          /\ (handler[c] = "idle" /\ handler'[c] \in Failed) =>
                /\ clients' = clients /\ Send' = Send /\ sendClosed' = sendClosed
                /\ hub' = hub /\ hubTodo' = hubTodo /\ hubCur' = hubCur /\ evt' = evt
                /\ reader' = reader /\ writer' = writer /\ closeCalls' = closeCalls
                /\ \A d \in Conns \ {c} : handler'[d] = handler[d]
          /\ handler[c] \in Failed =>
                /\ handler'[c] = handler[c]
                /\ reader'[c] = "off" /\ writer'[c] = "off"
                /\ \A u \in UserIDs : clients'[u] # c
                /\ Send'[c] = <<>> /\ ~sendClosed'[c]]_vars

\* A request has failed while another user's Client was registered.
C14_Witness ==
    \E c \in Conns :
        /\ handler[c] \in Failed
        /\ \E u \in UserIDs \ {UserID(c)} : clients[u] # NoClient

\* The JSON encoding of a Message (struct tags of lines 30-34).
MessageJson(m) ==
    "{\"sender_id\":" \o ToString(m.SenderID)
        \o ",\"sender_name\":\"" \o m.SenderName \o "\""
        \o ",\"receiver_id\":" \o ToString(m.ReceiverID)
        \o ",\"content\":\"" \o ContentText(m.Content) \o "\""
        \o ",\"timestamp\":" \o ToString(m.Timestamp) \o "}"

\* C15 - the frame a routed message puts on the receiver's mailbox is the
\* message itself: sender_id and sender_name of the sending Client,
\* receiver_id and content of the inbound frame, and the timestamp.
C15_RoutedFrameCarriesSender ==
    evt.kind = "route" =>
        \A d \in Conns : \A i \in DOMAIN sent[d] : sent[d][i].text = MessageJson(evt.msg)

\* The structured presence record {type:"status", data:{user_id, username,
\* online}}, as JSON.
StatusJson(userID, username, online) ==
    "{\"type\":\"status\",\"data\":{\"user_id\":" \o ToString(userID)
        \o ",\"username\":\"" \o username \o "\""
        \o ",\"online\":" \o BoolText(online) \o "}}"

\* C16 - every presence frame the hub enqueues is the structured record
\* {type:"status", data:{user_id, username, online}} of the Client being
\* registered (online true) or unregistered (online false).
C16_PresenceFrameStructured ==
    evt.kind \in {"register", "unregister"} =>
        \A d \in Conns : \A i \in DOMAIN sent[d] :
            sent[d][i].text
                = StatusJson(UserID(evt.client), Username(evt.client), evt.kind = "register")

\* C17 - nothing is fatal to the process: the hub never panics, that is, it
\* never closes a mailbox twice and never sends on a closed one; no Client
\* the hub can send to (a registry entry, or a target of the send under way)
\* has a closed mailbox.
C17_NeverFatal ==
    /\ hub # "panic"
    /\ \A u \in UserIDs : clients[u] # NoClient => ~sendClosed[clients[u]]
    /\ hub = "send" => \A d \in hubTodo : ~sendClosed[d]

\* A user's first connection has been torn down (mailbox closed) and the
\* user's second connection is registered, with the other user present.
C17_Witness ==
    \E c \in Conns :
        /\ sendClosed[c]
        /\ clients[UserID(c)] \notin {NoClient, c}
        /\ \E u \in UserIDs \ {UserID(c)} : clients[u] # NoClient

\* C18 - register(c) makes the registry map c.userID to c, whatever the
\* entry was, and leaves the other entries as they were; the entry is there
\* whenever a presence-online frame for c has been enqueued; every entry is
\* filed under its Client's own userID (one Client per userID).
C18_RegisterOverwrites ==
    /\ evt.kind = "register" =>
        clients = [u \in UserIDs |->
                      IF u = UserID(evt.client) THEN evt.client ELSE evt.before[u]]
    /\ \A u \in UserIDs : clients[u] # NoClient => UserID(clients[u]) = u
    /\ (evt.kind = "register" /\ \E d \in Conns : sent[d] # <<>>) =>
        clients[UserID(evt.client)] = evt.client

\* register(c) has replaced another Client's entry, with the other user's
\* entry in place.
C18_Witness ==
    /\ evt.kind = "register"
    /\ evt.before[UserID(evt.client)] \notin {NoClient, evt.client}
    /\ \E u \in UserIDs \ {UserID(evt.client)} : evt.before[u] # NoClient

\* C19 - a later connection replaces an earlier one only after the earlier
\* one was unregistered: register(c') never finds an entry under its userID
\* (an entry is a Client whose unregister event has not been processed).
C19_ReplaceOnlyAfterUnregister ==
    evt.kind = "register" => evt.before[UserID(evt.client)] = NoClient

\* C20 - the transport handle of a Client is closed exactly once: never a
\* second Close on it, and once closed by the time its Reader or its Writer
\* has terminated.
C20_ClosedExactlyOnce ==
    \A c \in Conns :
        /\ closeCalls[c] <= 1
        /\ (reader[c] = "done" \/ writer[c] = "done") => closeCalls[c] = 1

\* The unregister events of Client c the hub has received.
UnregEvents(c) == {i \in DOMAIN log : log[i].kind = "unregister" /\ log[i].client = c}

\* The register events of Client c the hub received before its i-th event.
RegEventsBefore(c, i) ==
    {j \in 1..(i - 1) : log[j].kind = "register" /\ log[j].client = c}

\* C21 - unregistration never double-fires: for every Client at most one
\* unregister event is ever submitted (pending or received), each one after
\* the Client's register event was received; a Client whose Writer has
\* exited while its Reader goes on has no unregister event.
C21_UnregisterOnce ==
    \A c \in Conns :
        /\ Cardinality(UnregEvents(c)) + (IF reader[c] = "unreg" THEN 1 ELSE 0) <= 1
        /\ \A i \in UnregEvents(c) : RegEventsBefore(c, i) # {}
        /\ reader[c] = "unreg" => RegEventsBefore(c, Len(log) + 1) # {}
        /\ (writer[c] = "done" /\ reader[c] \in {"read", "submit"}) => UnregEvents(c) = {}
        /\ reader[c] = "done" => UnregEvents(c) # {}

\* A Writer has exited on a failed write while its Reader is still reading,
\* and the other Client has been unregistered.
C21_Witness ==
    \E c, d \in Pair :
        /\ writer[c] = "done" /\ reader[c] \in {"read", "submit"}
        /\ UnregEvents(d) # {}

\* C22 - no leaked Writer: once the Reader of a Client has terminated (its
\* unregister event processed), the Writer is not left running on an open,
\* empty mailbox that nothing will ever close or fill.
C22_NoLeakedWriter ==
    \A c \in Conns :
        ~(/\ reader[c] = "done" /\ writer[c] = "run"
          /\ ~sendClosed[c] /\ Send[c] = <<>>
          /\ \A u \in UserIDs : clients[u] # c
          /\ hub = "select")

C24_OneEventAtATime ==
    [][evt' # evt =>
          /\ hub = "select" /\ hubTodo = {} /\ hubCur = NoClient
          /\ evt'.kind = "route" =>
                /\ handler[evt'.client] = "started"
                /\ reader[evt'.client] = "submit"
                /\ ~(evt.kind = "register" /\ \E d \in Conns : Pending(d) # <<>>)]_vars

\* A routed message waits at the hub while the presence fan-out of a
\* register event is parked on a full mailbox.
C24_Witness ==
    /\ hub = "send" /\ evt.kind = "register"
    /\ \E c \in Conns : reader[c] = "submit"

\* C25 - ownership: the registry changes only in the step in which the hub
\* receives a register or unregister event; a mailbox is closed only in the
\* step that receives its Client's unregister event, grows only by a frame
\* the hub appends (on receiving an event or resuming its parked send) and
\* shrinks only by its own running Writer taking the head; steps of
\* connection establishment, of a Reader and of a Writer on their own change
\* nothing else of the registry and the mailboxes.
C25_Ownership ==
    [][/\ clients' # clients => (evt' # evt /\ evt'.kind \in {"register", "unregister"})
       /\ \A c \in Conns :
            /\ sendClosed'[c] # sendClosed[c] =>
                (evt' # evt /\ evt'.kind = "unregister" /\ evt'.client = c)
            /\ Send'[c] # Send[c] =>
                \/ /\ evt' # evt \/ hub = "send"
                   /\ \E f \in {hubFrame'} : Send'[c] = Append(Send[c], f)
                \/ /\ Send[c] # <<>> /\ Send'[c] = Tail(Send[c])
                   /\ writer[c] = "run" /\ evt' = evt /\ hub' = hub
                   /\ \A d \in Conns \ {c} : Send'[d] = Send[d]
            /\ (handler'[c] # handler[c] /\ evt' = evt) =>
                (clients' = clients /\ Send' = Send /\ sendClosed' = sendClosed)
            /\ (reader'[c] # reader[c] /\ evt' = evt) =>
                (clients' = clients /\ Send' = Send /\ sendClosed' = sendClosed)
            /\ writer'[c] # writer[c] /\ evt' = evt =>
                (clients' = clients /\ sendClosed' = sendClosed
                    /\ \A d \in Conns \ {c} : Send'[d] = Send[d])]_vars

\* A Writer has taken the frame the hub put on its mailbox for the last
\* event, while another mailbox still holds a frame.
C25_Witness ==
    \E c, d \in Conns :
        /\ c # d /\ hub = "select"
        /\ sent[c] # <<>> /\ Send[c] = <<>> /\ writer[c] = "run"
        /\ Send[d] # <<>>

\* C26 - presence fan-out under the registry lock: while the Presence
\* Notifier is at work on the registry (here: parked in one of its sends)
\* the hub holds wsc.mu; the hub holds no lock when it receives its next
\* event.
C26_FanOutUnderLock ==
    /\ (hub = "send" /\ evt.kind \in {"register", "unregister"}) => hubLock
    /\ hub = "select" => ~hubLock

\* C27 - the mailbox: empty when the Client is handed to the hub, never
\* longer than its capacity, and changed only by a frame joining at the tail
\* or the head leaving.
C27_MailboxBounded ==
    [][\A c \in Conns :
          /\ Len(Send'[c]) <= SendCap
          /\ handler'[c] \in {"idle", "register"} => Send'[c] = <<>>
          /\ Send'[c] # Send[c] =>
                \/ Send[c] # <<>> /\ Send'[c] = Tail(Send[c])
                \/ Len(Send[c]) < SendCap /\ Send'[c] = Append(Send[c], hubFrame')]_vars

\* A mailbox is at capacity with the hub parked on it, holding an older and
\* a newer frame.
C27_Witness ==
    \E c \in Conns :
        /\ Len(Send[c]) = SendCap /\ hub = "send" /\ hubCur = c
        /\ Send[c][1] # Send[c][SendCap]

\* C28 - delivery: with the Writers scheduled fairly, every mailbox is
\* emptied again and again unless its Writer has terminated or its transport
\* stops taking writes (a write fails, or the transport has been closed), and
\* a frame leaves a mailbox only from the head and into the hands of its
\* Writer: every frame the hub enqueues is eventually received and written;
\* no frame is written twice.
C28_Delivery ==
    /\ \A c \in Pair : []<>(Send[c] = <<>> \/ writer[c] = "done" \/ ~ConnOpen(c))
    /\ [][\A c \in Pair : Len(Send'[c]) < Len(Send[c]) =>
            /\ Send'[c] = Tail(Send[c])
            /\ yield'[c] = Append(yield[c], Head(Send[c]))]_vars
    /\ [](\A c \in Pair : \A i, j \in DOMAIN yield[c] : yield[c][i] = yield[c][j] => i = j)

\* A Writer has written the two frames the hub put on its mailbox and is
\* still running on an open transport.
C28_Witness ==
    \E c \in Pair :
        /\ Len(yield[c]) >= 2 /\ Send[c] = <<>>
        /\ writer[c] = "run" /\ ConnOpen(c)

\* C29 - one store per owner: whatever the interleaving of CreateStore
\* calls, the table holds at most one store of each owner; a CreateStore
\* call that ended with "user already has a store" has created nothing, and
\* one that succeeded has created the only store of its owner.
C29_OneStorePerOwner ==
    /\ \A o \in Owners : Cardinality(FindByOwnerID(o)) <= 1
    /\ \A p \in Calls :
        /\ call[p].result = "user already has a store" => call[p].made = 0
        /\ (call[p].op = "create" /\ call[p].result = "ok") =>
                \A t \in FindByOwnerID(call[p].ownerID) : t.ID = call[p].made

\* The step in which caller p enters UpdateStore or DeleteStore.
EntersUpdateOrDelete(p) ==
    /\ call[p].pc = "idle" /\ call'[p].pc # "idle"
    /\ call'[p].op \in {"update", "delete"}

\* The rows of the table other than the one numbered id.
Others(table, id) == {t \in table : t.ID # id}

\* Only the owner's UpdateStore or DeleteStore changes the table, and only
\* the store it names; a call that ends in an error leaves the table as it
\* was.
OnlyOwnerWrites(p) ==
    /\ (call'[p] # call[p] /\ call[p].op \in {"update", "delete"} /\ stores' # stores) =>
            /\ \E t \in stores : t.ID = call[p].id /\ t.OwnerID = call[p].ownerID
            /\ Others(stores', call[p].id) = Others(stores, call[p].id)
            /\ \A t \in stores' : t.ID = call[p].id => t.OwnerID = call[p].ownerID
    /\ (call'[p] # call[p] /\ call'[p].result \notin {"", "ok"}) => stores' = stores

ValidRequest(c) == c.op = "delete" \/ c.name = NoName \/ ValidName(c.name)

====
